---- MODULE Spec2Model ----
(***************************************************************************)
(* Model of sys-config.py (BredOS Configurator): the command runner        *)
(* (cmdr / cli_runner / tui_runner / mrunner / elevated_file_write), the   *)
(* device-tree reconciler (normalize_filename, set_base_dtb, set_overlays) *)
(* and the U-Boot migration (uboot_migrator, dt_manager).                  *)
(*                                                                         *)
(* Strings are sequences of tokens: "/" and "." are tokens of their own,   *)
(* every other token is a non-empty run of characters holding neither.     *)
(***************************************************************************)
EXTENDS Naturals, Sequences, FiniteSets, TLC

VARIABLES
    \* ---- what the collaborators report about the system (dt.*)
    grub_exists,      \* dt.grub_exists()
    extlinux_exists,  \* dt.extlinux_exists()
    booted_with_edk,  \* dt.booted_with_edk()
    \* ---- module globals
    DRYRUN,           \* --dryrun
    ROOT_MODE,        \* check_root()
    LOG_FILE,         \* TRUE when --log named a log file
    stdscr,           \* TRUE in the curses interface (c.stdscr is not None)
    spawned,          \* elevator.spawned
    faults,           \* commands that failed for a reason outside the program so far
    \* ---- files
    installed,        \* /usr/bin/u-boot-update exists
    grubFile,         \* /etc/default/grub: lines <<key, quote, value>>, or Garbage
    ubootFile,        \* /etc/default/u-boot: lines <<key, quote, value>>, or Absent
    extlinuxConf,     \* /boot/extlinux/extlinux.conf: the list of label stanzas
    efi,              \* <efidir>/dtb: [dirs, base, overlays]
    \* ---- control
    pc,               \* position of the running call
    cmd,              \* dt_manager's argument: the words of the CLI command
    arg,              \* the name given to set_base_dtb, or None
    loc,              \* locals of the running operation
    \* ---- observation of the running operation
    log,              \* runner calls of the operation so far: <<what, class>>
    last,             \* the last runner call: [cmd, res, rep]
    shown,            \* the last c.message title shown by the operation
    mig,              \* this dt_manager call's migration: [ran, w, trig, ret, ops]
    prevMig,          \* the migration of the dt_manager call before it
    \* ---- normalize_filename on its own
    nfArg,      \* the filename argument
    nfStem,     \* the stem the argument names
    nfOut,      \* the returned string, or None
    \* ---- a helper of the program called on its own
    fnArg,      \* its arguments
    fnOut       \* what it returns, or None

None == <<"None">>

\* --------------------------------------------------------------- strings

Max(a, b) == IF a >= b THEN a ELSE b

\* str.rfind(ch): the last index of ch in s (1-based), 0 when absent
RFind(s, ch) ==
    LET hits == {i \in 1..Len(s) : s[i] = ch}
    IN  IF hits = {} THEN 0 ELSE CHOOSE i \in hits : \A j \in hits : j <= i

\* os.path.basename: what follows the last "/"
Basename(s) == SubSeq(s, RFind(s, "/") + 1, Len(s))

\* os.path.splitext(base)[0]: cut at the last "." unless only dots lead to it
SplitextName(base) ==
    LET dot == RFind(base, ".")
    IN  IF dot > 0 /\ \E i \in 1..(dot - 1) : base[i] # "."
        THEN SubSeq(base, 1, dot - 1)
        ELSE base

normalize_filename(filename, extension) ==
    SplitextName(Basename(filename)) \o <<".", extension>>

\* ------------------------------------------------------ ordered mappings
\* a dict is a sequence of <<key, value>> pairs in insertion order

Has(d, k) == \E i \in 1..Len(d) : d[i][1] = k
Get(d, k) == d[CHOOSE i \in 1..Len(d) : d[i][1] = k][2]
Put(d, k, v) ==
    IF Has(d, k)
    THEN [i \in 1..Len(d) |-> IF d[i][1] = k THEN <<k, v>> ELSE d[i]]
    ELSE Append(d, <<k, v>>)
Del(d, k) == SelectSeq(d, LAMBDA e : e[1] # k)

\* ---------------------------------------------------------- the tree cache
\* dt.gencache(): the blobs under /boot/dtbs

Boot == <<"/", "boot", "/">>
BaseA == Boot \o <<"dtbs", "/", "a", ".", "dtb">>
BaseF == Boot \o <<"dtbs", "/", "rk3588s-fydetab-duo", ".", "dtb">>
OvX == Boot \o <<"dtbs", "/", "x", ".", "dtbo">>
OvY == Boot \o <<"dtbs", "/", "y", ".", "dtbo">>
dtb_cache == [base |-> {BaseA, BaseF}, overlays |-> {OvX, OvY}]

\* utilities.match_filename: the cache key with this file name, or None
match_filename(name, keys) ==
    IF \E k \in keys : Basename(k) = name
    THEN CHOOSE k \in keys : Basename(k) = name
    ELSE None

\* ------------------------------------------------------------ config files

\* a file no grammar parses, and a file that is not there
Garbage == <<<<"#garbage", "", <<>>>>>>
Absent == <<<<"#absent", "", <<>>>>>>
ParseError == <<"ConfigParseError">>

\* dt.parse_grub: KEY=value lines, the quoting dropped
parse_grub(file) ==
    IF file = Garbage THEN ParseError
    ELSE [i \in 1..Len(file) |-> <<file[i][1], file[i][3]>>]

\* dt.encode_grub: every value single-quoted
encode_grub(cfg) == [i \in 1..Len(cfg) |-> <<cfg[i][1], "'", cfg[i][2]>>]

UbootDefaults == <<<<"U_BOOT_IS_SETUP", <<"false">>>>>>

\* dt.parse_uboot: KEY="value" lines, the defaults when the file is not found
parse_uboot(file) ==
    IF file = Absent THEN UbootDefaults
    ELSE [i \in 1..Len(file) |-> <<file[i][1], file[i][3]>>]

\* dt.encode_uboot: every value double-quoted
encode_uboot(cfg) == [i \in 1..Len(cfg) |-> <<cfg[i][1], "\"", cfg[i][2]>>]

\* ------------------------------------------------- the EFI override directory
\* efi = [dirs |-> <efidir>/dtb/base and /overlays exist, base, overlays |-> file names]

\* dt.uefi_overriden()
uefi_overriden == efi.dirs

\* one command of a line: rm of the files b in directory a, cp of the blob b into
\* directory a, cpas (cp to the file name b in a), mkdir of both directories, sync
Cmd(c, a, b) == [c |-> c, a |-> a, b |-> b, src |-> None]
\* cp -v <src> <efidir>/dtb/base/<name>
CpAs(src, name) == [c |-> "cpas", a |-> "base", b |-> {name}, src |-> src]
Unbound == <<Cmd("unbound", "-", {})>>

\* can the command succeed on this directory state
CmdValid(fs, one) ==
    CASE one.c = "rm" -> one.b # {} /\ one.b \subseteq fs[one.a]
      [] one.c \in {"cp", "cpas"} -> fs.dirs
      [] OTHER -> TRUE

CmdApply(fs, one) ==
    CASE one.c = "rm" -> [fs EXCEPT ![one.a] = @ \ one.b]
      [] one.c = "cp" -> [fs EXCEPT ![one.a] = @ \cup {Basename(x) : x \in one.b}]
      [] one.c = "cpas" -> [fs EXCEPT ![one.a] = @ \cup one.b]
      [] one.c = "mkdir" -> [fs EXCEPT !.dirs = TRUE]
      [] OTHER -> fs

\* the first n commands of an "a && b && c" line applied in order
RECURSIVE ApplyCmds(_, _, _)
ApplyCmds(fs, cmds, n) ==
    IF n = 0 THEN fs ELSE CmdApply(ApplyCmds(fs, cmds, n - 1), cmds[n])

\* the commands the line can stop at with a non-zero status: any command up to
\* the first one that cannot succeed
FailPoints(fs, cmds) ==
    {j \in 1..Len(cmds) :
        \A i \in 1..(j - 1) : CmdValid(ApplyCmds(fs, cmds, i - 1), cmds[i])}

AllValid(fs, cmds) ==
    \A i \in 1..Len(cmds) : CmdValid(ApplyCmds(fs, cmds, i - 1), cmds[i])

\* ------------------------------------------------------------- the runner

\* how many commands of one behaviour fail for outside reasons (a full disk, a
\* refused password, Ctrl-C); a command line that cannot succeed fails besides
MaxFaults == 1

\* cmdr: what a call can come to
\*   dry    DRYRUN, nothing executed, the text returned
\*   noauth first authentication failed, nothing executed, None returned
\*   crash  elevator.run raised with the elevator already spawned: proc_cm is None
\*   ok     executed, exit status 0
\*   fail   executed, non-zero exit status
\*   int    KeyboardInterrupt, the process killed, -1 returned
cmdr_without_dryrun(elevate) ==
    IF faults >= MaxFaults THEN {"ok"}
    ELSE {"ok", "fail", "int"} \cup
         (IF elevate /\ ~ROOT_MODE
          THEN (IF spawned THEN {"crash"} ELSE {"noauth"})
          ELSE {})
cmdr(elevate) ==
    IF DRYRUN THEN {"dry"}
    ELSE IF faults >= MaxFaults THEN {"ok"}
    ELSE {"ok", "fail", "int"} \cup
         (IF elevate /\ ~ROOT_MODE
          THEN (IF spawned THEN {"crash"} ELSE {"noauth"})
          ELSE {})

Executed(r) == r \in {"ok", "fail", "int"}
Class(r) == IF Executed(r) THEN r ELSE "skip"

\* cli_runner: with a log file, result.stdout of a str (or None) raises
cli_runner_raises(r) == LOG_FILE /\ r # "int"

\* what the runner tells the user about the step
cli_runner_report(r) == IF r = "int" THEN "ABORTED" ELSE "-"
tui_runner_report(r, prompt) ==
    IF ~prompt THEN "-" ELSE IF r = "int" THEN "ABORTED" ELSE "OK"

Raises(r) == r = "crash" \/ (~stdscr /\ cli_runner_raises(r))
Report(r, prompt) ==
    IF r = "crash" THEN "-"
    ELSE IF stdscr THEN tui_runner_report(r, prompt)
    ELSE IF cli_runner_raises(r) THEN "-" ELSE cli_runner_report(r)

\* runner(cmd, True, label, prompt) with outcome r, the caller going on at next
run_line(what, prompt, r, cost, next) ==
    /\ spawned' = (spawned \/ (~ROOT_MODE /\ Executed(r)))
    /\ faults' = faults + cost
    /\ last' = [cmd |-> what, res |-> r, rep |-> Report(r, prompt)]
    /\ log' = Append(log, <<what, Class(r)>>)
    /\ pc' = IF Raises(r) THEN "crashed" ELSE next

Cost(r) == IF r \in {"ok", "dry"} THEN 0 ELSE 1
runner(what, prompt, r, next) == run_line(what, prompt, r, Cost(r), next)

\* elevated_file_write: printf ... | tee file. tee empties the file when it
\* opens it and writes the lines as they come: a line that failed or was
\* killed leaves the old file (tee never started) or the lines written so far
FilesAfter(old, new, r) ==
    IF r = "ok" THEN {new}
    ELSE IF Executed(r) THEN {old} \cup {SubSeq(new, 1, n) : n \in 0..(Len(new) - 1)}
    ELSE {old}

\* mrunner: the commands joined by && in one sh -c; j is where a failing line stops
\* <<outcome, j, what it takes from the budget of outside failures>>
BatchOutcomes(cmds) ==
    {<<o[1], o[2], Cost(o[1])>> : o \in
        {<<r, j>> \in (cmdr(TRUE) \ {"ok"}) \X (0..Len(cmds)) :
            \/ r \in {"fail", "int"} /\ j >= 1 /\ j \in FailPoints(efi, cmds)
            \/ ~Executed(r) /\ j = 0}}
    \cup (IF DRYRUN THEN {}
          ELSE IF AllValid(efi, cmds) THEN {<<"ok", Len(cmds), 0>>}
          ELSE {<<"fail", j, 0>> : j \in {j \in FailPoints(efi, cmds) :
                                            \A k \in FailPoints(efi, cmds) : k <= j}})
EfiAfter(cmds, r, j) ==
    IF r = "ok" THEN ApplyCmds(efi, cmds, j)
    ELSE IF Executed(r) THEN ApplyCmds(efi, cmds, j - 1)
    ELSE efi

\* ------------------------------------------------------------ initial state

Quiet == [n |-> <<"quiet">>, v |-> <<>>]
RootP == [n |-> <<"root">>, v |-> <<"UUID">>]
\* a legacy label stanza: fdt and append
Label1 ==
    <<<<"fdt", <<"/", "dtbs", "/", "a", ".", "dtb">>>>,
      <<"append", <<RootP, Quiet>>>>>>
ExtlinuxConfs == {<<>>, <<Label1>>}

GrubVar == <<<<"GRUB_DTB", "\"", <<"dtbs", "/", "a", ".", "dtb">>>>,
             <<"GRUB_TIMEOUT", "", <<"5">>>>>>
GrubNoDtb == <<<<"GRUB_TIMEOUT", "", <<"5">>>>>>
UbootMigrated == <<<<"U_BOOT_IS_SETUP", "\"", <<"true">>>>,
                   <<"U_BOOT_FDT", "\"", <<"a", ".", "dtb">>>>>>
NoEfi == [dirs |-> FALSE, base |-> {}, overlays |-> {}]
\* /etc/default/grub with the override directory beside it
GrubSystems ==
    {<<GrubVar, NoEfi>>, <<GrubNoDtb, NoEfi>>, <<Garbage, NoEfi>>,
     <<GrubNoDtb, [dirs |-> TRUE, base |-> {<<"a", ".", "dtb">>}, overlays |-> {}]>>,
     <<GrubNoDtb, [dirs |-> TRUE, base |-> {<<"a", ".", "dtb">>},
                   overlays |-> {<<"x", ".", "dtbo">>}]>>,
     <<GrubNoDtb, [dirs |-> TRUE, base |-> {}, overlays |-> {}]>>}
\* /etc/default/u-boot, u-boot-update installed, extlinux.conf
UbootSystems ==
    {<<Absent, FALSE, <<Label1>>>>, <<Absent, FALSE, <<>>>>,
     <<UbootMigrated, TRUE, <<Label1>>>>}

LocNone == [op |-> "-", normalized |-> None, matched |-> None, grubcfg |-> "-",
            listing |-> {},
            cmds |-> Unbound,
            dtbos |-> <<>>, normalized_dtbos |-> {}, matched_dtbos |-> {}]
\* ran: the translation was entered; w: how the write went; trig: u-boot-update
\* was executed; ret: what uboot_migrator returned; ops: an operation followed
MigNone == [ran |-> FALSE, w |-> "none", trig |-> FALSE, ret |-> "-", ops |-> FALSE]
LastNone == [cmd |-> "-", res |-> "-", rep |-> "-"]

Init ==
    /\ grub_exists \in BOOLEAN
    /\ extlinux_exists \in BOOLEAN
    /\ booted_with_edk \in (IF grub_exists /\ extlinux_exists THEN BOOLEAN ELSE {grub_exists})
    /\ DRYRUN \in BOOLEAN
    /\ ROOT_MODE \in BOOLEAN
    /\ stdscr \in BOOLEAN
    \* tui_runner writes the log as text and goes on: the log changes nothing there
    /\ LOG_FILE \in (IF stdscr THEN {FALSE} ELSE BOOLEAN)
    /\ spawned = FALSE
    /\ faults = 0
    /\ \E g \in (IF grub_exists THEN GrubSystems ELSE {<<<<>>, NoEfi>>}) :
            grubFile = g[1] /\ efi = g[2]
    /\ \E u \in (IF extlinux_exists THEN UbootSystems ELSE {<<Absent, FALSE, <<>>>>}) :
            ubootFile = u[1] /\ installed = u[2] /\ extlinuxConf = u[3]
    /\ pc = "idle"
    /\ cmd = <<>>
    /\ arg = None
    /\ loc = LocNone
    /\ log = <<>>
    /\ last = LastNone
    /\ shown = "-"
    /\ mig = MigNone
    /\ prevMig = MigNone
    /\ nfArg = None /\ nfStem = None /\ nfOut = None
    /\ fnArg = None /\ fnOut = None

envv == <<grub_exists, extlinux_exists, booted_with_edk, DRYRUN, ROOT_MODE,
          LOG_FILE, stdscr>>
nfv == <<nfArg, nfStem, nfOut, fnArg, fnOut>>
filev == <<installed, grubFile, ubootFile, extlinuxConf, efi>>
obsv == <<log, last, shown>>
migv == <<mig, prevMig, cmd>>

\* ------------------------------------------------------------ set_base_dtb

Skip(next) == pc' = next /\ UNCHANGED <<spawned, faults, last, log>>

\* a caller resumes here once an operation has returned or raised
Resting == {"done", "crashed", "returned"}

Range(seq) == {seq[i] : i \in 1..Len(seq)}

\* ------------------------------------------- the CLI commands of dt_manager

\* the commands tried: list, base, base <name>, overlay enable/disable <name>
CliCmds ==
    {<<<<"list">>>>, <<<<"base">>>>,
     <<<<"base">>, BaseF>>, <<<<"base">>, <<"a">>>>, <<<<"base">>, <<"zz">>>>,
     <<<<"overlay">>, <<"enable">>, <<"x">>>>,
     <<<<"overlay">>, <<"disable">>, <<"x">>>>,
     <<<<"overlay">>, <<"enable">>, <<"zz">>>>}

\* lines 852-894: what dt_manager does with the command
Dispatch_base_always(cm) ==
    IF cm = <<>> THEN "usage"
    ELSE IF cm[1] = <<"list">> THEN "list"
    ELSE IF cm[1] = <<"base">> THEN "set_base_dtb"
    ELSE IF cm[1] = <<"overlay">> /\ Len(cm) > 1 /\ cm[2] = <<"enable">> THEN "enable"
    ELSE IF cm[1] = <<"overlay">> /\ Len(cm) > 1 /\ cm[2] = <<"disable">> THEN "disable"
    ELSE "usage"
Dispatch(cm) ==
    IF cm = <<>> THEN "usage"
    ELSE IF cm[1] = <<"list">> THEN "list"
    ELSE IF cm[1] = <<"base">> THEN (IF Len(cm) > 1 THEN "set_base_dtb" ELSE "live")
    ELSE IF cm[1] = <<"overlay">> /\ Len(cm) > 1 /\ cm[2] = <<"enable">> THEN "enable"
    ELSE IF cm[1] = <<"overlay">> /\ Len(cm) > 1 /\ cm[2] = <<"disable">> THEN "disable"
    ELSE "usage"

\* cmd[1] of the base command
CmdArg(cm) == IF Len(cm) > 1 THEN cm[2] ELSE None

\* dt.identify_overlays(): the overlays found enabled
EnabledLists == {<<>>, <<OvX>>}

NormalizeAll(names, extension) ==
    [i \in 1..Len(names) |-> normalize_filename(names[i], extension)]

\* lines 875-877: for i in dtbos: if i not in existing: existing.append(i)
RECURSIVE Enable_unchecked(_, _)
Enable_unchecked(existing, dtbos) ==
    IF dtbos = <<>> THEN existing
    ELSE Enable_unchecked(Append(existing, Head(dtbos)), Tail(dtbos))
RECURSIVE Enable(_, _)
Enable(existing, dtbos) ==
    IF dtbos = <<>> THEN existing
    ELSE Enable(IF Head(dtbos) \in Range(existing) THEN existing
                ELSE Append(existing, Head(dtbos)),
                Tail(dtbos))

\* list.remove: the first occurrence goes
RemoveFirst(seq, x) ==
    LET at == CHOOSE i \in 1..Len(seq) :
                  seq[i] = x /\ \A j \in 1..(i - 1) : seq[j] # x
    IN  SubSeq(seq, 1, at - 1) \o SubSeq(seq, at + 1, Len(seq))

\* lines 886-888: for i in dtbos: if i in existing: existing.remove(i)
RECURSIVE Disable(_, _)
Disable(existing, dtbos) ==
    IF dtbos = <<>> THEN existing
    ELSE Disable(IF Head(dtbos) \in Range(existing)
                 THEN RemoveFirst(existing, Head(dtbos)) ELSE existing,
                 Tail(dtbos))

\* lines 868-890: the list 'overlay enable' or 'overlay disable' gives set_overlays
OverlayCommand(verb, existing, dtbos) ==
    IF verb = "enable"
    THEN Enable(NormalizeAll(existing, "dtbo"), NormalizeAll(dtbos, "dtbo"))
    ELSE Disable(NormalizeAll(existing, "dtbo"), NormalizeAll(dtbos, "dtbo"))

\* names the user can ask for: the curses selector offers cache paths only
BaseRequests ==
    IF stdscr THEN dtb_cache.base
    ELSE IF Dispatch(cmd) = "set_base_dtb" THEN {CmdArg(cmd)} ELSE {}
OverlayRequests ==
    IF stdscr THEN {<<OvX>>}
    ELSE IF Dispatch(cmd) \in {"enable", "disable"}
    THEN {OverlayCommand(Dispatch(cmd), e, SubSeq(cmd, 3, Len(cmd))) :
            e \in EnabledLists}
    ELSE {}

\* lines 256 and 265: the requested name is refused
Rejects_never(normalized, names, matched) == FALSE
Rejects(normalized, names, matched) == normalized \notin names \/ matched = None

\* lines 276-278: the path below /boot
StripBoot(path) ==
    IF Len(path) >= 3 /\ SubSeq(path, 1, 3) = Boot
    THEN SubSeq(path, 4, Len(path)) ELSE path

\* where set_base_dtb goes on after validation and after the GRUB branch
SbAfterGrub == IF extlinux_exists THEN "sb_ext" ELSE "done"
SbAfterValidate == IF grub_exists THEN "sb_grub" ELSE SbAfterGrub

\* lines 311-324: the second name some boards know their blob by
AliasCmds(normalized, matched) ==
    IF normalized = <<"rk3588s-fydetab-duo", ".", "dtb">>
    THEN <<CpAs(matched, <<"rk3588s-tablet-12c-linux", ".", "dtb">>)>>
    ELSE IF normalized = <<"rk3588-rock-5b-plus", ".", "dtb">>
    THEN <<CpAs(matched, <<"rk3588-rock-5bp", ".", "dtb">>)>>
    ELSE <<>>

\* lines 302-325: the override-mode command line of set_base_dtb
SetBaseCmds(listing, normalized, matched) ==
    <<Cmd("rm", "base", listing), Cmd("cp", "base", {matched})>>
        \o AliasCmds(normalized, matched) \o <<Cmd("sync", "-", {})>>

\* lines 242-270: the call and its validation
set_base_dtb(dtb) ==
    /\ pc = "dispatch"
    /\ arg' = dtb
    /\ log' = <<>>
    /\ last' = LastNone
    /\ mig' = [mig EXCEPT !.ops = TRUE]
    /\ LET bases == {normalize_filename(k, "dtb") : k \in dtb_cache.base}
           normalized_dtb == normalize_filename(dtb, "dtb")
           matched_dtb == match_filename(normalized_dtb, dtb_cache.base)
       IN  IF dtb = None \/ Rejects(normalized_dtb, bases, matched_dtb)
           THEN /\ shown' = "ERROR"
                /\ loc' = [LocNone EXCEPT !.op = "set_base_dtb"]
                /\ pc' = "done"
           ELSE /\ shown' = "-"
                /\ loc' = [LocNone EXCEPT !.op = "set_base_dtb",
                                          !.normalized = normalized_dtb,
                                          !.matched = matched_dtb]
                /\ pc' = SbAfterValidate
    /\ UNCHANGED <<envv, nfv, filev, spawned, faults, prevMig, cmd>>

\* lines 283-299: the two calls of the config-variable branch, in program order
sb_grub_order_swapped == <<"trigger", "write">>
sb_grub_order == <<"write", "trigger">>

SbGrubStep(kind, next) ==
    IF kind = "write"
    THEN LET grubcfg == parse_grub(grubFile)
             new == encode_grub(Put(grubcfg, "GRUB_DTB", StripBoot(loc.matched))) IN
         IF ~DRYRUN
         THEN /\ \E r \in cmdr(TRUE) :
                     /\ runner("w_grub", FALSE, r, next)
                     /\ grubFile' \in FilesAfter(grubFile, new, r)
              /\ UNCHANGED shown
         ELSE /\ shown' = "DRYRUN Simulated Output"
              /\ Skip(next)
              /\ UNCHANGED grubFile
    ELSE /\ \E r \in cmdr(TRUE) : runner("r_grub", TRUE, r, next)
         /\ UNCHANGED <<shown, grubFile>>

\* lines 272-294 and 300-326: the GRUB branch up to its first runner call
sb_grub ==
    /\ pc = "sb_grub"
    /\ UNCHANGED <<envv, nfv, migv, arg, installed, ubootFile, extlinuxConf>>
    /\ IF parse_grub(grubFile) = ParseError
       THEN \* no handler around dt.parse_grub: the exception leaves set_base_dtb
            /\ pc' = "crashed"
            /\ loc' = [loc EXCEPT !.grubcfg = "raised"]
            /\ UNCHANGED <<spawned, faults, last, log, shown, grubFile, efi>>
       ELSE IF ~uefi_overriden
       THEN /\ SbGrubStep(sb_grub_order[1], "sb_grub_trig")
            /\ loc' = [loc EXCEPT !.grubcfg = "parsed"]
            /\ UNCHANGED efi
       ELSE LET listing == efi.base
                cmds == SetBaseCmds(listing, loc.normalized, loc.matched) IN
            /\ \E o \in BatchOutcomes(cmds) :
                    /\ run_line("b_base", TRUE, o[1], o[3], SbAfterGrub)
                    /\ efi' = EfiAfter(cmds, o[1], o[2])
            /\ loc' = [loc EXCEPT !.grubcfg = "parsed", !.listing = listing]
            /\ UNCHANGED <<shown, grubFile>>

\* lines 295-299
sb_grub_trig ==
    /\ pc = "sb_grub_trig"
    /\ SbGrubStep(sb_grub_order[2], SbAfterGrub)
    /\ UNCHANGED <<envv, nfv, migv, arg, loc, installed, ubootFile, extlinuxConf, efi>>

\* lines 335-351: the two calls of the U-Boot branch, in program order
sb_ext_order_swapped == <<"trigger", "write">>
sb_ext_order == <<"write", "trigger">>

SbExtStep(kind, next) ==
    IF kind = "write"
    THEN LET extcfg == Put(parse_uboot(ubootFile), "U_BOOT_FDT", loc.normalized)
             new == encode_uboot(extcfg) IN
         IF ~DRYRUN
         THEN /\ \E r \in cmdr(TRUE) :
                     /\ runner("w_uboot", FALSE, r, next)
                     /\ ubootFile' \in FilesAfter(ubootFile, new, r)
              /\ UNCHANGED shown
         ELSE /\ shown' = "DRYRUN Simulated Output"
              /\ Skip(next)
              /\ UNCHANGED ubootFile
    ELSE /\ \E r \in cmdr(TRUE) : runner("r_uboot", TRUE, r, next)
         /\ UNCHANGED <<shown, ubootFile>>

\* lines 328-345
sb_ext ==
    /\ pc = "sb_ext"
    /\ SbExtStep(sb_ext_order[1], "sb_ext_trig")
    /\ UNCHANGED <<envv, nfv, migv, arg, loc, installed, grubFile, extlinuxConf, efi>>

\* lines 347-351
sb_ext_trig ==
    /\ pc = "sb_ext_trig"
    /\ SbExtStep(sb_ext_order[2], "done")
    /\ UNCHANGED <<envv, nfv, migv, arg, loc, installed, grubFile, extlinuxConf, efi>>

\* ------------------------------------------------------------ set_overlays

SoAfterGrub == IF extlinux_exists THEN "so_ext" ELSE "done"

\* lines 443-460: the alias copies as set_overlays makes them
SwitchAliasCmds_fydetab_only(base_dtb_normalized, base_dtb_path) ==
    IF base_dtb_normalized = <<"rk3588s-fydetab-duo", ".", "dtb">>
    THEN <<CpAs(base_dtb_path, <<"rk3588s-tablet-12c-linux", ".", "dtb">>)>>
    ELSE <<>>
SwitchAliasCmds(base_dtb_normalized, base_dtb_path) ==
    IF base_dtb_normalized = <<"rk3588s-fydetab-duo", ".", "dtb">>
    THEN <<CpAs(base_dtb_path, <<"rk3588s-tablet-12c-linux", ".", "dtb">>)>>
    ELSE IF base_dtb_normalized = <<"rk3588-rock-5b-plus", ".", "dtb">>
    THEN <<CpAs(base_dtb_path, <<"rk3588-rock-5bp", ".", "dtb">>)>>
    ELSE <<>>

\* lines 438-462: the command line that fills the override directory on the switch
SwitchCmds(base_dtb_normalized, base_dtb_path) ==
    <<Cmd("mkdir", "-", {}), Cmd("cp", "base", {base_dtb_path})>>
        \o SwitchAliasCmds(base_dtb_normalized, base_dtb_path)
        \o <<Cmd("sync", "-", {})>>

\* lines 501-505: cmds as "Updating Overlays" finds it; Unbound when never bound
OverlayCmds(listing, bound, matched_dtbos) ==
    LET start == IF listing # {} THEN <<Cmd("rm", "overlays", listing)>> ELSE bound
        cps == {Cmd("cp", "overlays", {m}) : m \in matched_dtbos}
        \* the copies in the iteration order of the set
        RECURSIVE Seqs(_)
        Seqs(S) == IF S = {} THEN <<>>
                   ELSE LET x == CHOOSE x \in S : TRUE IN <<x>> \o Seqs(S \ {x})
    IN  IF start = Unbound THEN Unbound ELSE start \o Seqs(cps)

\* lines 491-507: list the overlays directory, build the line, run it
UpdateOverlays ==
    IF ~efi.dirs /\ ~DRYRUN
    THEN \* utilities.ls raises on the missing directory
         /\ pc' = "crashed"
         /\ UNCHANGED <<spawned, faults, last, log, efi>>
    ELSE LET cmds == OverlayCmds(efi.overlays, loc.cmds, loc.matched_dtbos) IN
         IF cmds = Unbound
         THEN \* cmds was never assigned: UnboundLocalError
              /\ pc' = "crashed"
              /\ UNCHANGED <<spawned, faults, last, log, efi>>
         ELSE \E o \in BatchOutcomes(cmds) :
                 /\ run_line("b_ovl", TRUE, o[1], o[3], SoAfterGrub)
                 /\ efi' = EfiAfter(cmds, o[1], o[2])

\* lines 354-394: the call and its validation
set_overlays(dtbos) ==
    /\ pc = "dispatch"
    /\ arg' = None
    /\ log' = <<>>
    /\ last' = LastNone
    /\ mig' = [mig EXCEPT !.ops = TRUE]
    /\ LET overlays == {normalize_filename(k, "dtbo") : k \in dtb_cache.overlays}
           normalized_dtbos == {normalize_filename(d, "dtbo") : d \in Range(dtbos)}
           matched_dtbos ==
               {match_filename(n, dtb_cache.overlays) : n \in normalized_dtbos}
       IN  IF \E n \in normalized_dtbos :
                    Rejects(n, overlays, match_filename(n, dtb_cache.overlays))
           THEN /\ shown' = "ERROR"
                /\ loc' = [LocNone EXCEPT !.op = "set_overlays", !.dtbos = dtbos]
                /\ pc' = "done"
           ELSE /\ shown' = "-"
                /\ loc' = [LocNone EXCEPT !.op = "set_overlays", !.dtbos = dtbos,
                                          !.normalized_dtbos = normalized_dtbos,
                                          !.matched_dtbos = matched_dtbos]
                /\ pc' = IF grub_exists THEN "so_grub" ELSE SoAfterGrub
    /\ UNCHANGED <<envv, nfv, filev, spawned, faults, prevMig, cmd>>

\* lines 396-464 (the switch to override mode) or 491-507 (already in it)
so_grub ==
    /\ pc = "so_grub"
    /\ UNCHANGED <<envv, nfv, migv, arg, installed, ubootFile, extlinuxConf, grubFile>>
    /\ IF uefi_overriden
       THEN UpdateOverlays /\ UNCHANGED <<loc, shown>>
       ELSE \E confirm \in BOOLEAN :
            IF ~confirm
            THEN /\ shown' = "ABORTED"
                 /\ Skip("done")
                 /\ UNCHANGED <<loc, efi>>
            ELSE LET grubcfg == parse_grub(grubFile) IN
                 IF grubcfg = ParseError \/ ~Has(grubcfg, "GRUB_DTB")
                 THEN \* parse_grub raises, or grubcfg["GRUB_DTB"] does
                      /\ pc' = "crashed"
                      /\ loc' = [loc EXCEPT !.grubcfg =
                                    IF grubcfg = ParseError THEN "raised" ELSE "parsed"]
                      /\ UNCHANGED <<spawned, faults, last, log, shown, efi>>
                 ELSE LET base_dtb_normalized ==
                              normalize_filename(Get(grubcfg, "GRUB_DTB"), "dtb")
                          base_dtb_path ==
                              match_filename(base_dtb_normalized, dtb_cache.base)
                          cmds == SwitchCmds(base_dtb_normalized, base_dtb_path)
                      IN  IF base_dtb_path = None
                          THEN /\ shown' = "ERROR"
                               /\ Skip("done")
                               /\ loc' = [loc EXCEPT !.grubcfg = "parsed"]
                               /\ UNCHANGED efi
                          ELSE /\ \E o \in BatchOutcomes(cmds) :
                                      /\ run_line("b_switch", FALSE, o[1], o[3], "so_grub_write")
                                      /\ efi' = EfiAfter(cmds, o[1], o[2])
                               /\ loc' = [loc EXCEPT !.grubcfg = "parsed", !.cmds = cmds]
                               /\ UNCHANGED shown

\* lines 466-480
so_grub_write ==
    /\ pc = "so_grub_write"
    /\ UNCHANGED <<envv, nfv, migv, arg, loc, installed, ubootFile, extlinuxConf, efi>>
    /\ LET new == encode_grub(Del(parse_grub(grubFile), "GRUB_DTB")) IN
       IF ~DRYRUN
       THEN /\ \E r \in cmdr(TRUE) :
                   /\ runner("w_grub", FALSE, r, "so_grub_trig")
                   /\ grubFile' \in FilesAfter(grubFile, new, r)
            /\ UNCHANGED shown
       ELSE /\ shown' = "DRYRUN Simulated Output"
            /\ Skip("so_grub_trig")
            /\ UNCHANGED grubFile

\* lines 482-486
so_grub_trig ==
    /\ pc = "so_grub_trig"
    /\ \E r \in cmdr(TRUE) : runner("r_grub", TRUE, r, "so_ovl")
    /\ UNCHANGED <<envv, nfv, migv, arg, loc, filev, shown>>

\* lines 491-507 after the switch
so_ovl ==
    /\ pc = "so_ovl"
    /\ UpdateOverlays
    /\ UNCHANGED <<envv, nfv, migv, arg, loc, shown, installed, ubootFile,
                   extlinuxConf, grubFile>>

\* lines 509-544
so_ext ==
    /\ pc = "so_ext"
    /\ UNCHANGED <<envv, nfv, migv, arg, loc, installed, grubFile, extlinuxConf, efi>>
    /\ LET names == [i \in 1..Len(loc.dtbos) |->
                        normalize_filename(loc.dtbos[i], "dtbo")]
           extcfg == IF loc.dtbos # <<>>
                     THEN Put(parse_uboot(ubootFile), "U_BOOT_FDT_OVERLAYS", names)
                     ELSE Del(parse_uboot(ubootFile), "U_BOOT_FDT_OVERLAYS")
           new == encode_uboot(extcfg) IN
       IF ~DRYRUN
       THEN /\ \E r \in cmdr(TRUE) :
                   /\ runner("w_uboot", FALSE, r, "so_ext_trig")
                   /\ ubootFile' \in FilesAfter(ubootFile, new, r)
            /\ UNCHANGED shown
       ELSE /\ shown' = "DRYRUN Simulated Output"
            /\ Skip("so_ext_trig")
            /\ UNCHANGED ubootFile

\* lines 546-550
so_ext_trig ==
    /\ pc = "so_ext_trig"
    /\ \E r \in cmdr(TRUE) : runner("r_uboot", TRUE, r, "done")
    /\ UNCHANGED <<envv, nfv, migv, arg, loc, filev, shown>>

\* ------------------------------------------------ uboot_migrator, dt_manager

\* line 735: re.sub(r"\s*root=[^\s]+", "", params).strip() on the parameter list;
\* a parameter is [n |-> its name cut around a final "root", v |-> its value]
StripRoot(params) ==
    LET cut(q) == IF q.v # <<>> /\ q.n # <<>> /\ q.n[Len(q.n)] = "root"
                  THEN [n |-> SubSeq(q.n, 1, Len(q.n) - 1), v |-> <<>>]
                  ELSE q
        all == [x \in 1..Len(params) |-> cut(params[x])]
    IN  SelectSeq(all, LAMBDA q : q.n # <<>>)

\* lines 729-750: the U-Boot config translated from the legacy label stanza
Translate(extcfg, label_data) ==
    LET c1 == Put(Put(Put(extcfg, "U_BOOT_IS_SETUP", <<"true">>),
                      "U_BOOT_MENU_LABEL", <<"BredOS">>),
                  "U_BOOT_COPY_DTB_TO_BOOT", <<"true">>)
        c2 == IF Has(label_data, "append")
              THEN Put(c1, "U_BOOT_PARAMETERS", StripRoot(Get(label_data, "append")))
              ELSE c1
        c3 == IF Has(label_data, "fdt")
              THEN Put(c2, "U_BOOT_FDT", Basename(Get(label_data, "fdt")))
              ELSE Del(c2, "U_BOOT_FDT")
        c4 == IF Has(label_data, "fdtoverlays")
              THEN LET dtbos == Get(label_data, "fdtoverlays") IN
                   Put(c3, "U_BOOT_FDT_OVERLAYS",
                       [x \in 1..Len(dtbos) |->
                           Basename(normalize_filename(dtbos[x], "dtbo"))])
              ELSE c3
    IN  c4

\* line 709: does the on-disk marker ask for the migration
NeedsMigration_always(extcfg) == TRUE
NeedsMigration(extcfg) ==
    Has(extcfg, "U_BOOT_IS_SETUP") /\ Get(extcfg, "U_BOOT_IS_SETUP") = <<"false">>

\* lines 708-764: parse, ask, translate, write
Migrate ==
    LET extcfg == parse_uboot(ubootFile) IN
    IF ~Has(extcfg, "U_BOOT_IS_SETUP")
    THEN \* extcfg["U_BOOT_IS_SETUP"] raises KeyError
         /\ pc' = "crashed"
         /\ UNCHANGED <<spawned, faults, last, log, ubootFile, shown, mig>>
    ELSE IF ~NeedsMigration(extcfg)
    THEN /\ Skip("dispatch")
         /\ mig' = [mig EXCEPT !.ret = "True"]
         /\ UNCHANGED <<ubootFile, shown>>
    ELSE \E res \in BOOLEAN :
         IF ~res
         THEN /\ Skip("returned")
              /\ mig' = [mig EXCEPT !.ret = "False"]
              /\ UNCHANGED <<ubootFile, shown>>
         ELSE IF extlinuxConf = <<>>
         THEN \* next(iter(labels.items())) raises StopIteration
              /\ pc' = "crashed"
              /\ mig' = [mig EXCEPT !.ran = TRUE]
              /\ UNCHANGED <<spawned, faults, last, log, ubootFile, shown>>
         ELSE LET new == encode_uboot(Translate(extcfg, extlinuxConf[1])) IN
              IF ~DRYRUN
              THEN /\ \E r \in cmdr(TRUE) :
                          /\ runner("w_uboot", FALSE, r, "mig_trig")
                          /\ ubootFile' \in FilesAfter(ubootFile, new, r)
                          /\ mig' = [mig EXCEPT !.ran = TRUE, !.w = Class(r)]
                   /\ UNCHANGED shown
              ELSE /\ shown' = "DRYRUN Simulated Output"
                   /\ mig' = [mig EXCEPT !.ran = TRUE]
                   /\ Skip("mig_trig")
                   /\ UNCHANGED ubootFile

\* lines 840-843 and 691-706: dt_manager calls the migrator
dt_manager(cm) ==
    /\ pc \in Resting \cup {"idle"}
    /\ cmd' = cm
    /\ arg' = None
    /\ loc' = LocNone
    /\ prevMig' = mig
    /\ UNCHANGED <<envv, nfv, faults, grubFile, extlinuxConf, efi>>
    /\ LET fresh == ~stdscr \/ pc = "crashed"   \* a new process, a new elevator
           sp == IF fresh THEN FALSE ELSE spawned IN
       IF ~extlinux_exists \/ booted_with_edk
       THEN /\ pc' = "dispatch"
            /\ spawned' = sp
            /\ log' = <<>> /\ last' = LastNone /\ shown' = "-"
            /\ mig' = [MigNone EXCEPT !.ret = "True"]
            /\ UNCHANGED <<installed, ubootFile>>
       ELSE /\ pc' = "mig"
            /\ spawned' = sp
            /\ log' = <<>> /\ last' = LastNone /\ shown' = "-"
            /\ mig' = MigNone
            /\ UNCHANGED <<installed, ubootFile>>

\* lines 695-764
mig_install ==
    /\ pc = "mig"
    /\ UNCHANGED <<envv, nfv, arg, loc, prevMig, cmd, grubFile, extlinuxConf, efi>>
    /\ IF ~installed
       THEN /\ \E r \in cmdr(TRUE) :
                   /\ runner("install", FALSE, r, "mig_parse")
                   /\ installed' = (r = "ok")
            /\ UNCHANGED <<ubootFile, shown, mig>>
       ELSE Migrate /\ UNCHANGED installed

\* lines 708-764 after the installation
mig_parse ==
    /\ pc = "mig_parse"
    /\ Migrate
    /\ UNCHANGED <<envv, nfv, arg, loc, prevMig, cmd, installed, grubFile, extlinuxConf, efi>>

\* lines 766-773
mig_trig ==
    /\ pc = "mig_trig"
    /\ \E r \in cmdr(TRUE) :
            /\ runner("r_uboot", TRUE, r, "dispatch")
            /\ mig' = [mig EXCEPT !.trig = Executed(r),
                                   !.ret = IF Raises(r) THEN "-" ELSE "True"]
            /\ shown' = IF Raises(r) THEN shown ELSE "Migration complete!"
    /\ UNCHANGED <<envv, nfv, arg, loc, prevMig, cmd, filev>>

\* lines 852-866, 910-913: a call that asks for no change (list, base, Main Menu)
query ==
    /\ pc = "dispatch"
    /\ stdscr \/ Dispatch(cmd) \in {"usage", "list", "live"}
    /\ pc' = "returned"
    /\ loc' = [LocNone EXCEPT !.op = IF stdscr THEN "menu" ELSE Dispatch(cmd)]
    /\ UNCHANGED <<envv, nfv, migv, arg, filev, spawned, faults, obsv>>

\* lines 910-913: the menu loop of the TUI comes round after an operation
menu ==
    /\ stdscr /\ pc = "done"
    /\ pc' = "dispatch"
    /\ arg' = None
    /\ loc' = LocNone
    /\ log' = <<>> /\ last' = LastNone /\ shown' = "-"
    /\ UNCHANGED <<envv, nfv, migv, filev, spawned, faults>>

\* calls of dt_manager and the operations they dispatch
Next ==
    \/ \E cm \in (IF stdscr THEN {<<>>} ELSE CliCmds) : dt_manager(cm)
    \/ menu
    \/ mig_install
    \/ mig_parse
    \/ mig_trig
    \/ query
    \/ \E dtb \in BaseRequests : set_base_dtb(dtb)
    \/ sb_grub
    \/ sb_grub_trig
    \/ sb_ext
    \/ sb_ext_trig
    \/ \E dtbos \in OverlayRequests : set_overlays(dtbos)
    \/ so_grub
    \/ so_grub_write
    \/ so_grub_trig
    \/ so_ovl
    \/ so_ext
    \/ so_ext_trig

vars == <<envv, spawned, faults, filev, pc, arg, loc, obsv, migv, nfv>>

Spec == Init /\ [][Next]_vars

\* ------------------------------------------- normalize_filename on its own

MaxStemLen == 3
StemTokens == {"a", "v2", "."}
\* a stem begins and ends with a word, dots only inside (rk3566-orangepi-3b-v1.1)
Stems ==
    {s \in UNION {[1..n -> StemTokens] : n \in 1..MaxStemLen} :
        s[1] # "." /\ s[Len(s)] # "."}
Dir == <<"/", "boot", "/", "dtbs", "/">>
\* the three ways a user names the blob <stem>.dtb
NamingsOf(stem) == {stem, stem \o <<".", "dtb">>, Dir \o stem \o <<".", "dtb">>}

restv == <<envv, spawned, faults, filev, pc, arg, loc, obsv, migv>>

InitNorm ==
    /\ grub_exists = FALSE /\ extlinux_exists = FALSE /\ booted_with_edk = FALSE
    /\ DRYRUN = FALSE /\ ROOT_MODE = FALSE /\ LOG_FILE = FALSE /\ stdscr = FALSE
    /\ spawned = FALSE /\ faults = 0 /\ installed = FALSE
    /\ grubFile = <<>> /\ ubootFile = Absent /\ extlinuxConf = <<>> /\ efi = NoEfi
    /\ pc = "idle" /\ cmd = <<>> /\ arg = None /\ loc = LocNone
    /\ log = <<>> /\ last = LastNone /\ shown = "-"
    /\ mig = MigNone /\ prevMig = MigNone
    /\ nfStem \in Stems
    /\ nfArg \in NamingsOf(nfStem)
    /\ nfOut = None
    /\ fnArg = None /\ fnOut = None

NormalizeCall ==
    /\ nfOut = None
    /\ nfOut' = normalize_filename(nfArg, "dtb")
    /\ UNCHANGED <<nfArg, nfStem, fnArg, fnOut, restv>>

NextNorm == NormalizeCall

SpecNorm == InitNorm /\ [][NextNorm]_vars

\* --------------------------------------------------- helpers on their own

\* everything but the helper's call at rest
Parked ==
    /\ grub_exists = FALSE /\ extlinux_exists = FALSE /\ booted_with_edk = FALSE
    /\ DRYRUN = FALSE /\ ROOT_MODE = FALSE /\ LOG_FILE = FALSE /\ stdscr = FALSE
    /\ spawned = FALSE /\ faults = 0 /\ installed = FALSE
    /\ grubFile = <<>> /\ ubootFile = Absent /\ extlinuxConf = <<>> /\ efi = NoEfi
    /\ pc = "idle" /\ cmd = <<>> /\ arg = None /\ loc = LocNone
    /\ log = <<>> /\ last = LastNone /\ shown = "-"
    /\ mig = MigNone /\ prevMig = MigNone
    /\ nfArg = None /\ nfStem = None /\ nfOut = None
    /\ fnOut = <<>>
parkv == <<envv, spawned, faults, filev, arg, loc, obsv, migv, nfArg, nfStem, nfOut>>

\* the helper returns out
Return(out) ==
    /\ pc = "idle"
    /\ pc' = "returned"
    /\ fnOut' = out
    /\ UNCHANGED <<parkv, fnArg>>

\* kernel parameters of a legacy append line: root=, nfsroot=, rootfstype=, quiet
MaxParams == 3
NfsRoot == [n |-> <<"nfs", "root">>, v |-> <<"server">>]
RootFs == [n |-> <<"root", "fstype">>, v |-> <<"ext4">>]
ParamLists ==
    UNION {[1..n -> {RootP, NfsRoot, RootFs, Quiet}] : n \in 0..MaxParams}

InitRoot == Parked /\ fnArg \in ParamLists
StripRootCall == Return(StripRoot(fnArg))
NextRoot == StripRootCall
SpecRoot == InitRoot /\ [][NextRoot]_vars

\* the base blobs of the boards with and without a second name
BoardBlobs ==
    {Boot \o <<"dtbs", "/", b, ".", "dtb">> :
        b \in {"a", "rk3588s-fydetab-duo", "rk3588-rock-5b-plus",
               "rk3588s-tablet-12c-linux", "rk3588-rock-5bp"}}
\* a base blob under any of its namings, and what the base directory holds
AliasInputs ==
    [dtb : UNION {{k, Basename(k), SubSeq(Basename(k), 1, Len(Basename(k)) - 2)} :
                    k \in BoardBlobs},
     listing : SUBSET {Basename(BaseA), Basename(BaseF), <<"old", ".", "dtb">>}]

InitAlias == Parked /\ fnArg \in AliasInputs
\* lines 302-325 and 438-462: both command lines for the same base blob
AliasCall ==
    LET normalized == normalize_filename(fnArg.dtb, "dtb")
        matched == match_filename(normalized, BoardBlobs)
    IN  Return([base |-> SetBaseCmds(fnArg.listing, normalized, matched),
                switch |-> SwitchCmds(normalized, matched)])
NextAlias == AliasCall
SpecAlias == InitAlias /\ [][NextAlias]_vars

\* 'overlay enable' and 'overlay disable': the overlays found enabled (no
\* overlay twice) and up to MaxRequested names as the user may type them
MaxRequested == 2
RequestedNames == {<<"x">>, <<"x", ".", "dtbo">>, OvY, <<"y">>, <<"zz">>}
OverlayInputs ==
    [verb : {"enable", "disable"},
     existing : {<<>>, <<OvX>>, <<OvY>>, <<OvX, OvY>>, <<OvY, OvX>>},
     dtbos : UNION {[1..n -> RequestedNames] : n \in 0..MaxRequested}]

InitCli == Parked /\ fnArg \in OverlayInputs
OverlayCommandCall ==
    Return(OverlayCommand(fnArg.verb, fnArg.existing, fnArg.dtbos))
NextCli == OverlayCommandCall
SpecCli == InitCli /\ [][NextCli]_vars

\* the live match and how it is shown: two base blobs, one with a dotted
\* stem, their decompiled text and the live text as sets of lines, and the
\* order in which the candidates are looked at
BaseV == Boot \o <<"dtbs", "/", "a", ".", "v2", ".", "dtb">>
LiveInputs ==
    [text : [{BaseA, BaseV} -> SUBSET {"X;", "Y;", "Z;"}],
     live : SUBSET {"X;", "Y;", "Z;"},
     order : {<<BaseA, BaseV>>, <<BaseV, BaseA>>}]

\* step 2 of the match: the candidate with the fewest lines of the live text
\* absent from it, the first such in the order looked at
RECURSIVE Nearest(_, _, _, _)
Nearest(text, live, order, best) ==
    IF order = <<>> THEN best
    ELSE LET diff == live \ text[Head(order)] IN
         Nearest(text, live, Tail(order),
                 IF Len(best) = 0 \/ Cardinality(diff) < Cardinality(best[2])
                 THEN <<Head(order), diff>> ELSE best)

\* dt.detect_live(): <<base, overlay-like lines>>; an exact match wins
detect_live(text, live, order) ==
    LET exact == SelectSeq(order, LAMBDA k : text[k] = live)
    IN  IF exact # <<>> THEN <<Head(exact), {}>>
        ELSE Nearest(text, live, order, <<>>)

\* lines 862-866: live[live.rfind("/") + 1 : live.rfind(".")] and ".dtb"
BaseShown_first_dot(live) ==
    LET dot == CHOOSE i \in 1..Len(live) :
                   live[i] = "." /\ \A j \in 1..(i - 1) : live[j] # "."
    IN  <<"Currently booted base DTB: ">>
            \o SubSeq(live, RFind(live, "/") + 1, dot - 1) \o <<".", "dtb">>
BaseShown(live) ==
    <<"Currently booted base DTB: ">>
        \o SubSeq(live, RFind(live, "/") + 1, RFind(live, ".") - 1) \o <<".", "dtb">>

\* lines 832-837: the last lines of the report
LiveReport(base, overlays) ==
    [base |-> <<"Base: ">> \o base,
     diffs |-> {<<"  + ", line>> : line \in overlays}]

InitLive == Parked /\ fnArg \in LiveInputs
LiveCall ==
    LET found == detect_live(fnArg.text, fnArg.live, fnArg.order)
    IN  Return([report |-> LiveReport(found[1], found[2]),
                base |-> BaseShown(found[1])])
NextLive == LiveCall
SpecLive == InitLive /\ [][NextLive]_vars

\* ----------------------------------------------------------- properties

\* the requested name normalizes to the normalized form of a cache key
KnownBase(dtb) ==
    \E k \in dtb_cache.base :
        normalize_filename(k, "dtb") = normalize_filename(dtb, "dtb")
KnownOverlay(dtbo) ==
    \E k \in dtb_cache.overlays :
        normalize_filename(k, "dtbo") = normalize_filename(dtbo, "dtbo")
\* the names of the operation under way are all known
Validated ==
    IF loc.op = "set_base_dtb" THEN KnownBase(arg)
    ELSE IF loc.op = "set_overlays"
    THEN \A i \in 1..Len(loc.dtbos) : KnownOverlay(loc.dtbos[i])
    ELSE TRUE

\* the runner calls of the operation under way, by what they do
Mutations == {"w_grub", "w_uboot", "b_base", "b_switch", "b_ovl"}
Triggers == {"r_grub", "r_uboot"}
Issued(what) == \E i \in 1..Len(log) : log[i][1] = what
InOperation == loc.op \in {"set_base_dtb", "set_overlays"}
\* lines 132-135: cli_runner opened the log file and appended the command line
LogFileWritten == ~stdscr /\ LOG_FILE /\ \E i \in 1..Len(log) : log[i][2] # "int"

\* C1: set_base_dtb with a name that normalizes to no cache key returns at once:
\* no file, no override directory is changed and no command is run, whichever
\* bootloaders and mode are active.
C1_UnknownBaseChangesNothing ==
    [][(pc = "dispatch" /\ loc'.op = "set_base_dtb" /\ ~KnownBase(arg'))
          => (pc' = "done" /\ log' = <<>> /\ shown' = "ERROR" /\ UNCHANGED filev)]_vars

C1_Witness ==
    /\ loc.op = "set_base_dtb" /\ ~KnownBase(arg)
    /\ pc = "done" /\ shown = "ERROR"
    /\ grub_exists /\ extlinux_exists /\ uefi_overriden

\* C2: in override mode, whatever command of the remove/copy/sync line of
\* set_base_dtb fails, the override base directory that held a blob before
\* still holds one, the old or the new.
C2_OverrideBaseKeepsABlob ==
    (loc.op = "set_base_dtb" /\ last.cmd = "b_base" /\ loc.listing # {})
        => efi.base # {}

C4_AllNamingsNormalizeToStemExt ==
    nfOut # None => nfOut = nfStem \o <<".", "dtb">>


\* C5, across bootloaders: in one operation no mutation (config write, override
\* directory command line) is issued after a regeneration command.
C5_NoMutationAfterAnyTrigger ==
    InOperation =>
        \A i, j \in 1..Len(log) :
            (i < j /\ log[i][1] \in Triggers) => log[j][1] \notin Mutations

\* C5, per bootloader: in one operation nothing is mutated after u-boot-update, and
\* /etc/default/grub is not written again after grub-mkconfig.
C5_NoMutationAfterOwnTrigger ==
    InOperation =>
        \A i, j \in 1..Len(log) :
            i < j =>
                /\ (log[i][1] = "r_uboot" => log[j][1] \notin Mutations)
                /\ (log[i][1] = "r_grub" => log[j][1] # "w_grub")

C5_Witness ==
    /\ loc.op = "set_base_dtb" /\ pc = "done" /\ Len(log) = 4
    /\ log[2][1] = "r_grub" /\ log[3][1] = "w_uboot" /\ log[4][1] = "r_uboot"

\* C6: a regeneration command is executed only after the write of its own
\* bootloader's config file was issued, in the operations and in the migrator,
\* and a runner call is issued in an operation only once its names are validated.
C6_WriteBeforeOwnTriggerAfterValidation ==
    /\ log # <<>> => Validated
    /\ \A j \in 1..Len(log) :
        /\ (log[j][1] = "r_grub" /\ log[j][2] # "skip")
              => \E i \in 1..(j - 1) : log[i][1] = "w_grub"
        /\ (log[j][1] = "r_uboot" /\ log[j][2] # "skip")
              => \E i \in 1..(j - 1) : log[i][1] = "w_uboot"

C6_Witness ==
    /\ loc.op = "set_base_dtb" /\ Validated /\ Len(log) >= 2
    /\ log[1] = <<"w_grub", "ok">> /\ log[2] = <<"r_grub", "ok">>

\* C7: in set_base_dtb and set_overlays a regeneration command is executed only
\* when the write of its config file, the call before it, succeeded.
C7_TriggerOnlyAfterSuccessfulWrite ==
    InOperation =>
        \A j \in 1..Len(log) :
            /\ (log[j][1] = "r_grub" /\ log[j][2] # "skip")
                  => (j > 1 /\ log[j - 1] = <<"w_grub", "ok">>)
            /\ (log[j][1] = "r_uboot" /\ log[j][2] # "skip")
                  => (j > 1 /\ log[j - 1] = <<"w_uboot", "ok">>)

\* C8: with both bootloaders present, a set_base_dtb call on a known name has,
\* when it is over, issued the GRUB selection (config write or override line),
\* the write of /etc/default/u-boot and u-boot-update.
C8_BothBootloadersUpdated ==
    (/\ loc.op = "set_base_dtb" /\ KnownBase(arg)
     /\ grub_exists /\ extlinux_exists /\ ~DRYRUN
     /\ pc \in Resting)
        => /\ Issued("w_grub") \/ Issued("b_base")
           /\ Issued("w_uboot")
           /\ Issued("r_uboot")

\* C9: with both bootloaders present, an operation whose parse of the GRUB
\* config failed has, when it is over, still written the U-Boot config and
\* triggered u-boot-update.
C9_GrubParseFailureKeepsUboot ==
    (/\ InOperation /\ loc.grubcfg = "raised"
     /\ extlinux_exists /\ ~DRYRUN
     /\ pc \in Resting)
        => (Issued("w_uboot") /\ Issued("r_uboot"))

\* C10: a command that exited with a non-zero status is never reported "OK" by
\* the runner, and the migrator never reports completion after such a write.
C10_FailureIsSurfaced ==
    /\ (last.res = "fail" /\ last.cmd \in Triggers \cup {"w_grub", "w_uboot"})
          => last.rep # "OK"
    /\ shown = "Migration complete!" => mig.w # "fail"

\* C11: with extlinux present and not booted through EDK, no operation writes
\* /etc/default/u-boot while its marker U_BOOT_IS_SETUP is still "false".
C11_NoUbootWriteWhileLegacy ==
    (/\ InOperation /\ extlinux_exists /\ ~booted_with_edk
     /\ \E i \in 1..Len(log) : log[i] = <<"w_uboot", "ok">>)
        => ~NeedsMigration(parse_uboot(ubootFile))

\* C12: U_BOOT_PARAMETERS is the append list without its root=<value>
\* parameters, every other parameter kept as it was and in order.
C12_OnlyRootParameterRemoved ==
    pc = "returned" =>
        fnOut = SelectSeq(fnArg, LAMBDA q : ~(q.n = <<"root">> /\ q.v # <<>>))

\* C13: after a validated set_base_dtb in override mode whose remove/copy/sync
\* line ran with no outside failure, the override base directory holds the new
\* blob, its alias where the board has one, and nothing else.
C13_OverrideBaseHoldsOnlyNewBlob ==
    (/\ loc.op = "set_base_dtb" /\ Validated
     /\ last.cmd = "b_base" /\ faults = 0 /\ ~DRYRUN)
        => efi.base = {Basename(loc.matched)}
                        \cup UNION {c.b : c \in Range(AliasCmds(loc.normalized, loc.matched))}

\* C14: after a validated set_overlays with GRUB present that came to its end
\* with no outside failure, the override overlays directory holds exactly the
\* blobs of the requested overlays.
C14_OverlaysDirHoldsExactlyRequested ==
    (/\ loc.op = "set_overlays" /\ Validated /\ grub_exists
     /\ pc \in Resting /\ shown # "ABORTED" /\ loc.grubcfg # "raised"
     /\ faults = 0 /\ ~DRYRUN)
        => efi.overlays = {Basename(m) : m \in loc.matched_dtbos}

\* C15: set_base_dtb and set_overlays make the same alias copies: the blob of
\* fydetab-duo also as rk3588s-tablet-12c-linux.dtb, the blob of rock-5b-plus
\* also as rk3588-rock-5bp.dtb, both from the blob that is copied under its
\* own name, and no alias copy for any other base.
C15_SameAliasTableInBoth ==
    pc = "returned" =>
        LET normalized == normalize_filename(fnArg.dtb, "dtb")
            copied(cmds) == UNION {c.b : c \in {x \in Range(cmds) : x.c = "cp"}}
            aliases(cmds) == {<<c.src, c.b>> : c \in {x \in Range(cmds) : x.c = "cpas"}}
            table == IF normalized = <<"rk3588s-fydetab-duo", ".", "dtb">>
                     THEN {{<<"rk3588s-tablet-12c-linux", ".", "dtb">>}}
                     ELSE IF normalized = <<"rk3588-rock-5b-plus", ".", "dtb">>
                     THEN {{<<"rk3588-rock-5bp", ".", "dtb">>}}
                     ELSE {}
        IN  /\ aliases(fnOut.base) = aliases(fnOut.switch)
            /\ aliases(fnOut.base) = copied(fnOut.base) \X table
            /\ copied(fnOut.base) = copied(fnOut.switch)

C15_Witness ==
    /\ pc = "returned"
    /\ normalize_filename(fnArg.dtb, "dtb") = <<"rk3588-rock-5b-plus", ".", "dtb">>
    /\ \E c \in Range(fnOut.switch) :
            c.c = "cpas" /\ c.b = {<<"rk3588-rock-5bp", ".", "dtb">>}

\* C16: set_overlays validates every requested overlay before it changes
\* anything: with one unknown name in the list, also beside known ones, it
\* returns with the error shown, no file or directory changed, no command run.
C16_UnknownOverlayChangesNothing ==
    [][(/\ loc'.op = "set_overlays"
        /\ \E i \in 1..Len(loc'.dtbos) : ~KnownOverlay(loc'.dtbos[i]))
          => (/\ pc' = "done" /\ log' = <<>> /\ shown' = "ERROR"
              /\ UNCHANGED <<filev, spawned>>)]_vars

C16_Witness ==
    /\ loc.op = "set_overlays" /\ pc = "done" /\ shown = "ERROR"
    /\ \E i \in 1..Len(loc.dtbos) : KnownOverlay(loc.dtbos[i])
    /\ \E i \in 1..Len(loc.dtbos) : ~KnownOverlay(loc.dtbos[i])
    /\ grub_exists /\ extlinux_exists /\ uefi_overriden /\ efi.overlays # {}

\* C17: 'overlay enable' hands set_overlays the enabled overlays followed by
\* each requested one that was not enabled yet, in the order asked, none
\* dropped and none twice; 'overlay disable' hands it the enabled overlays
\* without the requested ones; names are compared in normalized form.
C17_EnableAppendsDisableRemoves ==
    pc = "returned" =>
        LET e == NormalizeAll(fnArg.existing, "dtbo")
            d == NormalizeAll(fnArg.dtbos, "dtbo")
            first(x) == CHOOSE i \in 1..Len(d) : d[i] = x /\ \A j \in 1..(i - 1) : d[j] # x
        IN  IF fnArg.verb = "enable"
            THEN /\ Len(fnOut) >= Len(e) /\ SubSeq(fnOut, 1, Len(e)) = e
                 /\ Range(fnOut) = Range(e) \cup Range(d)
                 /\ \A i, j \in 1..Len(fnOut) : i < j => fnOut[i] # fnOut[j]
                 /\ \A i, j \in (Len(e) + 1)..Len(fnOut) :
                        i < j => first(fnOut[i]) < first(fnOut[j])
            ELSE fnOut = SelectSeq(e, LAMBDA x : x \notin Range(d))

C17_Witness ==
    /\ pc = "returned" /\ fnArg.verb = "enable"
    /\ fnArg.existing = <<OvX>> /\ fnArg.dtbos = <<<<"y">>, <<"x">>>>
    /\ fnOut = <<<<"x", ".", "dtbo">>, <<"y", ".", "dtbo">>>>

\* C18: the CLI command 'base' without a name runs no command at all, from
\* the call of dt_manager on: nothing is installed, written or regenerated.
C18_BaseQueryRunsNoCommand ==
    (~stdscr /\ cmd = <<<<"base">>>>) => \A i \in 1..Len(log) : log[i][2] = "skip"

\* C18: once the migration that opens dt_manager has returned, 'base' without
\* a name only queries the live match: neither set_base_dtb nor set_overlays
\* is called, no file or directory changes and no command runs; set_base_dtb
\* is called from the CLI for 'base <name>' only, with that name.
C18_BaseQueryAfterMigrationOnlyQueries ==
    /\ [][(pc = "dispatch" /\ ~stdscr /\ cmd = <<<<"base">>>>)
            => (/\ pc' = "returned" /\ loc'.op = "live"
                /\ UNCHANGED <<filev, spawned, obsv>>)]_vars
    /\ []((~stdscr /\ loc.op = "set_base_dtb")
            => (Len(cmd) = 2 /\ cmd[1] = <<"base">> /\ arg = cmd[2]))

C18_Witness ==
    /\ ~stdscr /\ cmd = <<<<"base">>>>
    /\ pc = "returned" /\ loc.op = "live"
    /\ Issued("w_uboot") /\ Issued("r_uboot")

\* C19: with DRYRUN set no step spawns a subprocess or changes any file,
\* the log file of the session included.
C19_DryRunChangesNoFile ==
    [][DRYRUN => (UNCHANGED filev /\ ~spawned' /\ ~LogFileWritten')]_vars

\* C19: with DRYRUN set no step spawns a subprocess or changes a config file,
\* the installation or the override directory: every cmdr call returns the
\* "DRYRUN: ..." text without executing, and no computed config is handed to
\* the file writer.
C19_DryRunChangesNoSystemFile ==
    [][DRYRUN =>
        /\ UNCHANGED filev /\ ~spawned'
        /\ \A i \in 1..Len(log') :
                log'[i][2] = "skip" /\ log'[i][1] \notin {"w_grub", "w_uboot"}
        /\ last'.res \in {"-", "dry"}]_vars

C19_Witness ==
    /\ DRYRUN /\ loc.op = "set_base_dtb" /\ pc = "done"
    /\ grub_exists /\ extlinux_exists /\ ~booted_with_edk /\ ~uefi_overriden
    /\ shown = "DRYRUN Simulated Output"
    /\ log = <<<<"r_grub", "skip">>, <<"r_uboot", "skip">>>> /\ last.res = "dry"

\* C20: a command that the user interrupted is never passed off as run: the
\* runner that made the call reports ABORTED for it.
C20_InterruptIsReportedAborted ==
    last.res = "int" => last.rep = "ABORTED"

\* C21: a write through elevated_file_write leaves the file as it was, or
\* holding the complete new content, or is reported to have been cut short.
C21_WriteIsAtomicOrReported ==
    [][(Len(log') = Len(log) + 1 /\ last'.cmd \in {"w_grub", "w_uboot"})
          => \/ (grubFile' = grubFile /\ ubootFile' = ubootFile)
             \/ last'.res = "ok"
             \/ last'.rep = "ABORTED"]_vars

\* C22: when no base candidate has the live text, the base that the report
\* and 'base' without a name show is a candidate with the fewest lines of the
\* live text absent from it, and the diff lines of the report are exactly
\* those lines; so a candidate N lines short of the live text is shown before
\* one that is M > N lines short.
C22_NearestIsFewestAbsentLines ==
    (pc = "returned" /\ \A k \in DOMAIN fnArg.text : fnArg.text[k] # fnArg.live) =>
        \E k \in DOMAIN fnArg.text :
            /\ \A o \in DOMAIN fnArg.text :
                    Cardinality(fnArg.live \ fnArg.text[k])
                        <= Cardinality(fnArg.live \ fnArg.text[o])
            /\ fnOut.report.base = <<"Base: ">> \o k
            /\ fnOut.base = <<"Currently booted base DTB: ">> \o Basename(k)
            /\ fnOut.report.diffs = {<<"  + ", line>> : line \in fnArg.live \ fnArg.text[k]}

C22_Witness ==
    /\ pc = "returned"
    /\ fnArg.live = {"X;", "Y;", "Z;"}
    /\ fnArg.text[BaseA] = {"X;"} /\ fnArg.text[BaseV] = {"X;", "Y;"}
    /\ fnArg.order = <<BaseA, BaseV>>
    /\ fnOut.report.base = <<"Base: ">> \o BaseV
    /\ fnOut.report.diffs = {<<"  + ", "Z;">>}

\* C23: a validated set_base_dtb in config-variable mode changes the GRUB
\* config in its GRUB_DTB key only, which becomes the matched path without
\* its leading /boot/, and touches nothing of the override directory; in
\* override mode it neither writes /etc/default/grub nor runs grub-mkconfig.
C23_OnlyGrubDtbChanges ==
    [][(loc.op = "set_base_dtb" /\ loc'.op = "set_base_dtb" /\ Validated) =>
        IF ~uefi_overriden
        THEN /\ efi' = efi
             /\ grubFile' # grubFile =>
                    parse_grub(grubFile') =
                        Put(parse_grub(grubFile), "GRUB_DTB", StripBoot(loc.matched))
        ELSE /\ grubFile' = grubFile
             /\ last'.cmd \notin {"w_grub", "r_grub"}]_vars

\* C24: in a set_overlays that switches to override mode, GRUB_DTB leaves
\* /etc/default/grub only once the base blob is in the override base directory:
\* at no point is the base tree selected by neither of them.
C24_BaseSelectedThroughoutSwitch ==
    (loc.op = "set_overlays" /\ Issued("b_switch"))
        => (Has(parse_grub(grubFile), "GRUB_DTB") \/ efi.base # {})

\* C25: the translation of the legacy config completes without error for
\* every legacy config: a migration that was entered and has not yet come to
\* its write or its u-boot-update has not raised.
C25_TranslationCompletes ==
    (mig.ran /\ ~Issued("w_uboot") /\ ~Issued("r_uboot")) => pc # "crashed"

\* C26: when the user declines the migration, uboot_migrator returns False
\* with nothing installed, written or regenerated, and dt_manager returns
\* without starting an operation.
C26_DeclineChangesNothing ==
    mig.ret = "False" =>
        /\ pc = "returned" /\ loc.op = "-"
        /\ \A i \in 1..Len(log) : log[i][2] = "skip"

\* C27: a failed privilege elevation makes cmdr return to its caller with no
\* command executed and nothing raised, on the first authentication as with
\* the elevator already spawned.
C27_ElevationFailureReturns ==
    last.cmd # "-" => last.res # "crash"

====
